---------------------------- MODULE Spec2Model ----------------------------
(***************************************************************************)
(* Spatial aggregation engine of the logistics supply/demand maps.         *)
(*                                                                         *)
(* The repository holds four programs that share the aggregation core:     *)
(*   app1   (src/app1.py)   filter by logistics player and hourly bin      *)
(*   app2   (src/app2.py)   filter by a whitelist of quartered time bins   *)
(*   script (src/script.py) region fill of a pincode boundary              *)
(*   zoom1  (src/zoom1.py)  one-shot map at a chosen resolution            *)
(*                                                                         *)
(* Coordinates are integers in units of 1/1024 degree.  The hexagonal grid *)
(* library is modelled as a planar tiling by square cells whose side at    *)
(* resolution 8 is 1/128 degree and halves with each resolution step.      *)
(***************************************************************************)
EXTENDS Integers, Sequences, FiniteSets, TLC

VARIABLES
    app,          \* which of the four programs runs
    loaded,       \* the records as the loader returned them at startup
    logistics_df, \* the module-level record set the handlers read
    pc,           \* position of the request being served
    request,      \* its parameters
    pincode,      \* script: the pincode of the clicked location
    boundary,     \* script: the boundary ring handed to the region fill
    filtered_df,  \* the handler's filtered records
    region,       \* script: the result of fill_polygon_with_hexagons
    response,     \* the response sent
    earlier,      \* an answer given before, kept for comparison
    workers,      \* concurrent requests: the position and locals of each
    hexagon_data, \* concurrent requests: the CellStats mappings constructed
    overpass      \* script: how the boundary service answered this request

vars == <<app, loaded, logistics_df, pc, request, pincode, boundary, filtered_df,
          region, response, earlier, workers, hexagon_data, overpass>>

(***************************************************************************)
(* Bounds of the model.                                                    *)
(***************************************************************************)
MaxRows == 3

\* the rows of the one large file, one restaurant location per row
BulkRows == 101

\* the order totals of the cells emitted one by one: every small total up to
\* this one (and the totals either side of the one where rounding collapses)
MaxCellOrders == 3

\* the rows of the files a region-fill request is followed on to its end
MaxFillRows == 1

(***************************************************************************)
(* Text.  A string the code transforms is a sequence of one-character      *)
(* strings, so that strip() and lower() compute something.                 *)
(***************************************************************************)
UpperChars == <<"A","B","C","D","E","F","G","H","I","J","K","L","M",
                "N","O","P","Q","R","S","T","U","V","W","X","Y","Z">>

LowerChars == <<"a","b","c","d","e","f","g","h","i","j","k","l","m",
                "n","o","p","q","r","s","t","u","v","w","x","y","z">>

Whitespace == {" ", "\t", "\n"}

lower_char(c) ==
    IF \E i \in 1..Len(UpperChars) : UpperChars[i] = c
    THEN LowerChars[CHOOSE i \in 1..Len(UpperChars) : UpperChars[i] = c]
    ELSE c

\* str.lower()
str_lower(s) == [i \in 1..Len(s) |-> lower_char(s[i])]

\* str.strip(): drops leading and trailing whitespace, keeps inner whitespace
str_strip(s) ==
    LET keep == {i \in 1..Len(s) : s[i] \notin Whitespace}
    IN  IF keep = {} THEN <<>>
        ELSE LET lo == CHOOSE i \in keep : \A j \in keep : i <= j
                 hi == CHOOSE i \in keep : \A j \in keep : i >= j
             IN  SubSeq(s, lo, hi)

\* str(value) of a cell read from the CSV: an empty field is NaN, printed "nan"
py_str(s) == IF s = <<>> THEN <<"n","a","n">> ELSE s

SUCCESS == <<"s","u","c","c","e","s","s">>

Digit(n) == <<"0","1","2","3","4","5","6","7","8","9">>[n + 1]

\* f"{x:02d}"
fmt_02d(x) == IF x < 100 THEN <<Digit(x \div 10), Digit(x % 10)>>
              ELSE <<Digit(x \div 100), Digit((x \div 10) % 10), Digit(x % 10)>>

\* f"{x:02d}-{(x+1):02d}"
hour_bin_of(x) == fmt_02d(x) \o <<"-">> \o fmt_02d(x + 1)

\* pd.cut(Hour, bins=[0, 6, 12, 18, 24], labels=[...]): right-closed
\* intervals (0,6], (6,12], (12,18], (18,24]; a value in none of them is NaN
NaNBin == "NaN"

time_bin_of(hour) ==
    IF 0 < hour /\ hour <= 6 THEN "Night (12AM-6AM)"
    ELSE IF 6 < hour /\ hour <= 12 THEN "Morning (6AM-12PM)"
    ELSE IF 12 < hour /\ hour <= 18 THEN "Afternoon (12PM-6PM)"
    ELSE IF 18 < hour /\ hour <= 24 THEN "Evening (6PM-12AM)"
    ELSE NaNBin

\* Series.astype(str) of the categorical time bin
bin_astype_str(b) == IF b = NaNBin THEN "nan" ELSE b

(***************************************************************************)
(* Grid.  A coordinate is an integer count of 1/1024 degree.               *)
(***************************************************************************)
UnitsPerDegree == 2^10

Pow2(n) == 2^n

in_range(lat, lng) ==
    /\ -90 * UnitsPerDegree <= lat /\ lat <= 90 * UnitsPerDegree
    /\ -180 * UnitsPerDegree <= lng /\ lng <= 180 * UnitsPerDegree

\* the resolutions the grid library accepts
valid_resolution(res) == 0 <= res /\ res <= 15

\* index along one axis of the cell that holds the coordinate x2/2 (x2 counts
\* half units, so that a bounding-box centre is exact); a cell at resolution
\* res is 2^(11-res) units wide
axis_index(x2, res) ==
    IF res <= 12 THEN x2 \div Pow2(12 - res) ELSE x2 * Pow2(res - 12)

\* h3.latlng_to_cell on doubled coordinates (defined for valid resolutions)
latlng2_to_cell(lat2, lng2, res) ==
    <<res, axis_index(lat2, res), axis_index(lng2, res)>>

\* h3.latlng_to_cell(lat, lng, res)
latlng_to_cell(lat, lng, res) == latlng2_to_cell(2 * lat, 2 * lng, res)

\* h3.grid_distance: steps between two cells of one resolution
grid_distance(a, b) ==
    LET dy == IF a[2] >= b[2] THEN a[2] - b[2] ELSE b[2] - a[2]
        dx == IF a[3] >= b[3] THEN a[3] - b[3] ELSE b[3] - a[3]
    IN  IF dx >= dy THEN dx ELSE dy

\* hex_id in h3.grid_disk(center, k)
in_grid_disk(hex_id, center, k) ==
    hex_id[1] = center[1] /\ grid_distance(hex_id, center) <= k

\* Geometry is computed in units scaled so that cell corners are integers:
\* by 1 up to resolution 11, by 2^(res-11) above
geo_scale(res) == IF res > 11 THEN Pow2(res - 11) ELSE 1

cell_side(res) == IF res > 11 THEN 1 ELSE Pow2(11 - res)

\* h3.cell_to_boundary(hex_id): the ring of (lat, lng) corners, in scaled
\* units; the first corner is not repeated at the end
cell_to_boundary(hex_id) ==
    LET s  == cell_side(hex_id[1])
        y0 == hex_id[2] * s
        x0 == hex_id[3] * s
    IN  << <<y0, x0>>, <<y0, x0 + s>>, <<y0 + s, x0 + s>>, <<y0 + s, x0>> >>


(***************************************************************************)
(* Planar geometry on integer points <<x, y>> (x = lng, y = lat), as the   *)
(* geometry library computes it for simple polygons.                       *)
(***************************************************************************)
cross(o, a, b) == (a[1] - o[1]) * (b[2] - o[2]) - (a[2] - o[2]) * (b[1] - o[1])

sign(n) == IF n > 0 THEN 1 ELSE IF n < 0 THEN -1 ELSE 0

min2(a, b) == IF a <= b THEN a ELSE b

max2(a, b) == IF a >= b THEN a ELSE b

\* p lies on the closed segment a-b
on_segment(p, a, b) ==
    /\ cross(a, b, p) = 0
    /\ min2(a[1], b[1]) <= p[1] /\ p[1] <= max2(a[1], b[1])
    /\ min2(a[2], b[2]) <= p[2] /\ p[2] <= max2(a[2], b[2])

\* the closed segments a-b and c-d share a point
segments_intersect(a, b, c, d) ==
    \/ /\ sign(cross(a, b, c)) * sign(cross(a, b, d)) < 0
       /\ sign(cross(c, d, a)) * sign(cross(c, d, b)) < 0
    \/ on_segment(c, a, b) \/ on_segment(d, a, b)
    \/ on_segment(a, c, d) \/ on_segment(b, c, d)

ring_next(ring, i) == ring[(i % Len(ring)) + 1]

\* p is inside the ring or on it (even-odd rule)
point_in_ring(p, ring) ==
    \/ \E i \in 1..Len(ring) : on_segment(p, ring[i], ring_next(ring, i))
    \/ LET crossing(i) ==
               LET a == ring[i]
                   b == ring_next(ring, i)
               IN  /\ (a[2] > p[2]) # (b[2] > p[2])
                   /\ IF b[2] > a[2]
                      THEN (p[1] - a[1]) * (b[2] - a[2]) < (p[2] - a[2]) * (b[1] - a[1])
                      ELSE (p[1] - a[1]) * (b[2] - a[2]) > (p[2] - a[2]) * (b[1] - a[1])
       IN  Cardinality({i \in 1..Len(ring) : crossing(i)}) % 2 = 1

\* Polygon.intersects(Polygon): the two closed regions share a point
polygon_intersects(P, Q) ==
    \/ \E i \in 1..Len(P), j \in 1..Len(Q) :
           segments_intersect(P[i], ring_next(P, i), Q[j], ring_next(Q, j))
    \/ point_in_ring(P[1], Q)
    \/ point_in_ring(Q[1], P)

\* [(coord[1], coord[0]) for coord in coords]: (lat, lng) pairs to (x, y)
swap_axes(coords) == [i \in 1..Len(coords) |-> <<coords[i][2], coords[i][1]>>]

scale_ring(ring, f) == [i \in 1..Len(ring) |-> <<ring[i][1] * f, ring[i][2] * f>>]

SetMin(S) == CHOOSE m \in S : \A n \in S : m <= n

SetMax(S) == CHOOSE m \in S : \A n \in S : m >= n

\* Polygon.bounds: (minx, miny, maxx, maxy)
polygon_bounds(P) ==
    LET xs == {P[i][1] : i \in 1..Len(P)}
        ys == {P[i][2] : i \in 1..Len(P)}
    IN  <<SetMin(xs), SetMin(ys), SetMax(xs), SetMax(ys)>>

(***************************************************************************)
(* CellAggregator.  hexagon_data is the defaultdict of the code, kept as   *)
(* the sequence of its entries in insertion order.                         *)
(***************************************************************************)
has_cell(hd, hex_id) == \E i \in 1..Len(hd) : hd[i].h3_index = hex_id

cell_index(hd, hex_id) == CHOOSE i \in 1..Len(hd) : hd[i].h3_index = hex_id

\* the default factory of hexagon_data
new_cell(hex_id) ==
    [h3_index |-> hex_id, total_orders |-> 0, success_orders |-> 0,
     fail_orders |-> 0, coords |-> {}]

\* the comparison without strip() and lower()
is_success_exact(status) == py_str(status) = SUCCESS

\* str(row['Order Status']).strip().lower() == 'success'
is_success(status) == str_lower(str_strip(py_str(status))) = SUCCESS

\* the else branch left out
count_status_success_only(cell, status) ==
    IF is_success(status)
    THEN [cell EXCEPT !.success_orders = @ + 1]
    ELSE cell

\* a success counted as one only while the cell has seen no failure
count_status_until_failure(cell, status) ==
    IF is_success(status) /\ cell.fail_orders = 0
    THEN [cell EXCEPT !.success_orders = @ + 1]
    ELSE [cell EXCEPT !.fail_orders = @ + 1]

\* the success/fail branch of one record
count_status(cell, status) ==
    IF is_success(status)
    THEN [cell EXCEPT !.success_orders = @ + 1]
    ELSE [cell EXCEPT !.fail_orders = @ + 1]

\* the body of the per-record try block once hex_id is known: total, the
\* distinct-point set, then the status split
aggregate_row(hd, hex_id, row) ==
    LET hd1 == IF has_cell(hd, hex_id) THEN hd ELSE Append(hd, new_cell(hex_id))
        i   == cell_index(hd1, hex_id)
        c1  == [hd1[i] EXCEPT !.total_orders = @ + 1,
                              !.coords = @ \cup {<<row.lat, row.lng>>}]
    IN  [hd1 EXCEPT ![i] = count_status(c1, row.status)]

(***************************************************************************)
(* FeatureEmitter.                                                         *)
(***************************************************************************)
\* the quotient rounded without the factor 100
round_rate_fraction(success, total, scale) ==
    LET num == success * scale
        q   == num \div total
        r2  == 2 * (num % total)
    IN  IF r2 > total THEN q + 1
        ELSE IF r2 < total THEN q
        ELSE IF q % 2 = 0 THEN q ELSE q + 1

\* round(success / total * 100, digits), as a count of 10^-digits percent
\* (round half to even, as Python rounds an exactly representable tie)
round_rate(success, total, scale) ==
    LET num == success * 100 * scale
        q   == num \div total
        r2  == 2 * (num % total)
    IN  IF r2 > total THEN q + 1
        ELSE IF r2 < total THEN q
        ELSE IF q % 2 = 0 THEN q ELSE q + 1

\* the Feature with the orders of the cell given for its locations
emit_feature_counting_orders(cell) ==
    [h3_index           |-> cell.h3_index,
     coordinates        |-> swap_axes(cell_to_boundary(cell.h3_index)),
     total_orders       |-> cell.total_orders,
     success_orders     |-> cell.success_orders,
     fail_orders        |-> cell.fail_orders,
     success_rate       |-> round_rate(cell.success_orders, cell.total_orders, 100),
     unique_restaurants |-> cell.total_orders]

\* the Feature with the corners as the grid library lists them
emit_feature_lat_first(cell) ==
    [h3_index           |-> cell.h3_index,
     coordinates        |-> cell_to_boundary(cell.h3_index),
     total_orders       |-> cell.total_orders,
     success_orders     |-> cell.success_orders,
     fail_orders        |-> cell.fail_orders,
     success_rate       |-> round_rate(cell.success_orders, cell.total_orders, 100),
     unique_restaurants |-> Cardinality(cell.coords)]

\* one GeoJSON Feature of create_h3_hexagons; success_rate in 1/100 percent
emit_feature(cell) ==
    [h3_index           |-> cell.h3_index,
     coordinates        |-> swap_axes(cell_to_boundary(cell.h3_index)),
     total_orders       |-> cell.total_orders,
     success_orders     |-> cell.success_orders,
     fail_orders        |-> cell.fail_orders,
     success_rate       |-> round_rate(cell.success_orders, cell.total_orders, 100),
     unique_restaurants |-> Cardinality(cell.coords)]

\* for hex_id, data in hexagon_data.items(): if data['total_orders'] > 0: ...
emit_features(hd) ==
    LET live == SelectSeq(hd, LAMBDA c : c.total_orders > 0)
    IN  [i \in 1..Len(live) |-> emit_feature(live[i])]

\* one hexagon summary of fill_polygon_with_hexagons; the boundary keeps the
\* (lat, lng) order and success_rate is the unrounded quotient num/den
emit_hexagon(cell) ==
    [h3_index       |-> cell.h3_index,
     boundary       |-> cell_to_boundary(cell.h3_index),
     total_orders   |-> cell.total_orders,
     success_orders |-> cell.success_orders,
     fail_orders    |-> cell.fail_orders,
     success_rate   |-> [num |-> cell.success_orders * 100, den |-> cell.total_orders],
     supply_count   |-> Cardinality(cell.coords)]

emit_hexagons(hd) ==
    LET live == SelectSeq(hd, LAMBDA c : c.total_orders > 0)
    IN  [i \in 1..Len(live) |-> emit_hexagon(live[i])]

(***************************************************************************)
(* The aggregation passes.                                                 *)
(***************************************************************************)
\* the record counted whatever its coordinates
step_indexed_unchecked(hd, row) == aggregate_row(hd, row.h3_index_id, row)

\* app1/app2 create_h3_hexagons, one record: the range check, then the cell
\* stored at load time
step_indexed(hd, row) ==
    IF ~in_range(row.lat, row.lng) THEN hd
    ELSE aggregate_row(hd, row.h3_index_id, row)

\* rows lo..hi of the loop, in order; the range is halved and the first half
\* computed before the second is entered, which keeps the evaluation shallow
RECURSIVE fold_indexed_range(_, _, _, _)
fold_indexed_range(hd, df, lo, hi) ==
    IF lo > hi THEN hd
    ELSE IF lo = hi THEN step_indexed(hd, df[lo])
    ELSE LET mid  == (lo + hi) \div 2
             left == fold_indexed_range(hd, df, lo, mid)
         IN  IF Len(left) >= 0 THEN fold_indexed_range(left, df, mid + 1, hi)
             ELSE left

\* for _, row in df.iterrows(), from row i on
fold_indexed(hd, df, i) == fold_indexed_range(hd, df, i, Len(df))

\* app1.create_h3_hexagons(df) and app2.create_h3_hexagons(df)
create_h3_hexagons(df) == emit_features(fold_indexed(<<>>, df, 1))

\* zoom1.create_h3_hexagons, one record: the range check, the cell at the
\* requested resolution (the library's resolution error is a ValueError,
\* which the per-record handler turns into "skip this record")
step_at_resolution(hd, row, resolution) ==
    IF ~in_range(row.lat, row.lng) THEN hd
    ELSE IF ~valid_resolution(resolution) THEN hd
    ELSE aggregate_row(hd, latlng_to_cell(row.lat, row.lng, resolution), row)

RECURSIVE fold_at_resolution_range(_, _, _, _, _)
fold_at_resolution_range(hd, df, lo, hi, resolution) ==
    IF lo > hi THEN hd
    ELSE IF lo = hi THEN step_at_resolution(hd, df[lo], resolution)
    ELSE LET mid  == (lo + hi) \div 2
             left == fold_at_resolution_range(hd, df, lo, mid, resolution)
         IN  IF Len(left) >= 0
             THEN fold_at_resolution_range(left, df, mid + 1, hi, resolution)
             ELSE left

\* for _, row in df.iterrows(), from row i on
fold_at_resolution(hd, df, i, resolution) ==
    fold_at_resolution_range(hd, df, i, Len(df), resolution)

\* the pass given up at the first record that raises
create_h3_hexagons_zoom1_aborting(df, resolution) ==
    IF /\ ~valid_resolution(resolution)
       /\ \E i \in 1..Len(df) : in_range(df[i].lat, df[i].lng)
    THEN <<[error |-> "H3ResDomainError"]>>
    ELSE emit_features(fold_at_resolution(<<>>, df, 1, resolution))

\* zoom1.create_h3_hexagons(df, resolution)
create_h3_hexagons_zoom1(df, resolution) ==
    emit_features(fold_at_resolution(<<>>, df, 1, resolution))

(***************************************************************************)
(* RegionFill (src/script.py).                                             *)
(***************************************************************************)
\* k = min(int(area_deg * 1000 / (resolution + 1)), 50), with the bounding
\* box sides dx, dy in units: area_deg = dx * dy / UnitsPerDegree^2
unclamped_k(dx, dy, resolution) ==
    (dx * dy * 1000) \div (UnitsPerDegree * UnitsPerDegree * (resolution + 1))

\* the cap left out
disk_radius_uncapped(dx, dy, resolution) == unclamped_k(dx, dy, resolution)

\* the radius handed to grid_disk
disk_radius(dx, dy, resolution) == min2(unclamped_k(dx, dy, resolution), 50)

\* the fill loop without the intersection test
fill_step_in_disk_only(hd, row, polygon, center_h3, k, resolution) ==
    IF ~in_range(row.lat, row.lng) THEN hd
    ELSE LET hex_id == latlng_to_cell(row.lat, row.lng, resolution)
         IN  IF in_grid_disk(hex_id, center_h3, k)
             THEN aggregate_row(hd, hex_id, row)
             ELSE hd

\* one record of the fill loop: the range check, the cell at the requested
\* resolution, membership of the candidate disk, then the intersection of the
\* cell with the region polygon (in scaled units)
fill_step(hd, row, polygon, center_h3, k, resolution) ==
    IF ~in_range(row.lat, row.lng) THEN hd
    ELSE LET hex_id == latlng_to_cell(row.lat, row.lng, resolution)
         IN  IF /\ in_grid_disk(hex_id, center_h3, k)
                /\ polygon_intersects(polygon, swap_axes(cell_to_boundary(hex_id)))
             THEN aggregate_row(hd, hex_id, row)
             ELSE hd

RECURSIVE fill_fold_range(_, _, _, _, _, _, _, _)
fill_fold_range(hd, df, lo, hi, polygon, center_h3, k, resolution) ==
    IF lo > hi THEN hd
    ELSE IF lo = hi THEN fill_step(hd, df[lo], polygon, center_h3, k, resolution)
    ELSE LET mid  == (lo + hi) \div 2
             left == fill_fold_range(hd, df, lo, mid, polygon, center_h3, k, resolution)
         IN  IF Len(left) >= 0
             THEN fill_fold_range(left, df, mid + 1, hi, polygon, center_h3, k, resolution)
             ELSE left

\* for _, row in df_filtered.iterrows(), from row i on
fill_fold(hd, df, i, polygon, center_h3, k, resolution) ==
    fill_fold_range(hd, df, i, Len(df), polygon, center_h3, k, resolution)

\* fill_polygon_with_hexagons(boundary_coords, resolution, df_filtered), with
\* the least number of vertices its guard lets through.
\* Besides the returned list (hexagons) the result records how the call went:
\*   outcome   "degenerate" (early return), "raised" (the outer handler
\*             returned []), "filled" (the loop ran)
\*   searched  grid_disk was called, with radius k
\*   processed the number of records the loop went through
fill_polygon(boundary_coords, resolution, df_filtered, min_vertices) ==
    IF Len(boundary_coords) < min_vertices
    THEN [hexagons |-> <<>>, outcome |-> "degenerate", searched |-> FALSE,
          k |-> 0, processed |-> 0]
    ELSE IF ~valid_resolution(resolution)
    THEN \* h3.latlng_to_cell(center_lat, center_lng, resolution) raises
         [hexagons |-> <<>>, outcome |-> "raised", searched |-> FALSE,
          k |-> 0, processed |-> 0]
    ELSE LET polygon   == swap_axes(boundary_coords)
             b         == polygon_bounds(polygon)
             center_h3 == latlng2_to_cell(b[2] + b[4], b[1] + b[3], resolution)
             dx        == b[3] - b[1]
             dy        == b[4] - b[2]
             k         == disk_radius(dx, dy, resolution)
             hd        == fill_fold(<<>>, df_filtered, 1,
                                    scale_ring(polygon, geo_scale(resolution)),
                                    center_h3, k, resolution)
         IN  [hexagons |-> emit_hexagons(hd), outcome |-> "filled",
              searched |-> TRUE, k |-> k, processed |-> Len(df_filtered)]

\* the guard admitting a two-vertex boundary
fill_polygon_with_hexagons_min2(boundary_coords, resolution, df_filtered) ==
    fill_polygon(boundary_coords, resolution, df_filtered, 2)

\* if not boundary_coords or len(boundary_coords) < 3: return []
fill_polygon_with_hexagons(boundary_coords, resolution, df_filtered) ==
    fill_polygon(boundary_coords, resolution, df_filtered, 3)

\* cos(i * 360 / 32 degrees), in thousandths
cos32(i) ==
    LET Q == <<1000, 981, 924, 831, 707, 556, 383, 195, 0>>
        j == i % 32
    IN  IF j <= 8 THEN Q[j + 1]
        ELSE IF j <= 16 THEN -Q[17 - j]
        ELSE IF j <= 24 THEN -Q[j - 15]
        ELSE Q[33 - j]

sin32(i) == cos32(i + 24)

\* cos(radians(lat)) in thousandths, lat in units (Bhaskara's approximation
\* of the sine of the complement, on tenths of a degree)
cos_lat(lat) ==
    LET d10 == ((IF lat >= 0 THEN lat ELSE -lat) * 10) \div UnitsPerDegree
        x10 == 900 - d10
        p   == x10 * (1800 - x10)
    IN  (400 * p) \div ((4050000 - p) \div 10)

\* nearest integer of n / d, d > 0
round_div(n, d) == (2 * n + d) \div (2 * d)

\* create_approximate_boundary(lat, lng, radius_km=2): 32 points around the
\* click; 2 km of latitude is degrees(2 / 6371) = 0.0179864 degree, that is
\* 18418 thousandths of a unit
create_approximate_boundary(lat, lng) ==
    [n \in 1..32 |->
        <<lat + round_div(18418 * cos32(n - 1), 1000000),
          lng + round_div(18418 * sin32(n - 1), 1000 * cos_lat(lat))>>]

(***************************************************************************)
(* The CSV and its loaders.  A raw row holds what the file says: latOk is  *)
(* FALSE for a latitude that is not a number, tsOk is FALSE for a          *)
(* timestamp that does not parse, an empty status is a missing value.      *)
(***************************************************************************)
txt_success == <<"s","u","c","c","e","s","s">>

txt_fail == <<"f","a","i","l">>

txt_garbled == <<" ","S","u","c","c","e","s","s"," ">>

RawPool ==
    { [latOk |-> TRUE,  lat |-> 29389, lng |-> 78950, tsOk |-> TRUE,  hour |-> 10,
       status |-> txt_success, player |-> "X"],
      [latOk |-> TRUE,  lat |-> 29389, lng |-> 78950, tsOk |-> TRUE,  hour |-> 0,
       status |-> txt_fail,    player |-> "X"],
      [latOk |-> TRUE,  lat |-> 29399, lng |-> 78961, tsOk |-> TRUE,  hour |-> 6,
       status |-> txt_garbled, player |-> "Y"],
      [latOk |-> TRUE,  lat |-> 29500, lng |-> 79100, tsOk |-> TRUE,  hour |-> 13,
       status |-> <<>>,        player |-> "Y"],
      [latOk |-> TRUE,  lat |-> 93184, lng |-> 78950, tsOk |-> TRUE,  hour |-> 10,
       status |-> txt_success, player |-> "X"],
      [latOk |-> FALSE, lat |-> 0,     lng |-> 78950, tsOk |-> TRUE,  hour |-> 10,
       status |-> txt_success, player |-> "X"],
      [latOk |-> TRUE,  lat |-> 29389, lng |-> 78950, tsOk |-> FALSE, hour |-> 0,
       status |-> txt_fail,    player |-> "Y"] }

\* the files of at most MaxRows rows whose Order Status column is read as
\* text (some row has a status), which the .str accessor of the handlers needs
RawFiles ==
    {f \in UNION {[1..n -> RawPool] : n \in 0..MaxRows} :
        Len(f) = 0 \/ \E i \in 1..Len(f) : f[i].status # <<>>}

\* a file of BulkRows orders, each at a restaurant location of its own
BulkFile ==
    [i \in 1..BulkRows |->
        [latOk |-> TRUE, lat |-> 29340 + i, lng |-> 78950, tsOk |-> TRUE, hour |-> 10,
         status |-> IF i % 2 = 1 THEN txt_success ELSE txt_fail, player |-> "X"]]

CsvFiles == RawFiles \cup {BulkFile}

\* dropna(subset=['Timestamp']) and dropna(subset=[latitude, longitude])
\* after the errors='coerce' conversions
clean_rows(raw) == SelectSeq(raw, LAMBDA r : r.tsOk /\ r.latOk)

\* app1.load_logistics_data: Hour_Bin and the resolution-8 cell of every row
load_logistics_data_app1(raw) ==
    LET df == clean_rows(raw)
    IN  [i \in 1..Len(df) |->
            [lat |-> df[i].lat, lng |-> df[i].lng, status |-> df[i].status,
             player |-> df[i].player, hour |-> df[i].hour,
             Hour_Bin |-> hour_bin_of(df[i].hour),
             h3_index_id |-> latlng_to_cell(df[i].lat, df[i].lng, 8)]]

\* app2.load_logistics_data: Time_Bin and the resolution-8 cell of every row
load_logistics_data_app2(raw) ==
    LET df == clean_rows(raw)
    IN  [i \in 1..Len(df) |->
            [lat |-> df[i].lat, lng |-> df[i].lng, status |-> df[i].status,
             player |-> df[i].player, hour |-> df[i].hour,
             Time_Bin |-> time_bin_of(df[i].hour),
             h3_index_id |-> latlng_to_cell(df[i].lat, df[i].lng, 8)]]

\* script.load_csv_data and zoom1.load_logistics_data: Time_Bin only
load_csv_data(raw) ==
    LET df == clean_rows(raw)
    IN  [i \in 1..Len(df) |->
            [lat |-> df[i].lat, lng |-> df[i].lng, status |-> df[i].status,
             player |-> df[i].player, hour |-> df[i].hour,
             Time_Bin |-> time_bin_of(df[i].hour)]]

Apps == {"app1", "app2", "script", "zoom1"}

load(a, raw) ==
    IF a = "app1" THEN load_logistics_data_app1(raw)
    ELSE IF a = "app2" THEN load_logistics_data_app2(raw)
    ELSE load_csv_data(raw)

(***************************************************************************)
(* RecordFilter and the response statistics.                               *)
(***************************************************************************)
txt_All == <<"A","l","l">>

\* a selection by either predicate instead of both
filter_app1_any(df, logistics_player, hour_bin) ==
    SelectSeq(df, LAMBDA r :
        \/ (logistics_player # "All" /\ r.player = logistics_player)
        \/ (hour_bin # txt_All /\ r.Hour_Bin = hour_bin))

\* the sentinel compared in the wrong case
filter_app1_lowercase_sentinel(df, logistics_player, hour_bin) ==
    LET by_player == IF logistics_player # "all"
                     THEN SelectSeq(df, LAMBDA r : r.player = logistics_player)
                     ELSE df
    IN  IF hour_bin # <<"a","l","l">>
        THEN SelectSeq(by_player, LAMBDA r : r.Hour_Bin = hour_bin)
        ELSE by_player

\* app1.filter_hexagons: the two successive selections
filter_app1(df, logistics_player, hour_bin) ==
    LET by_player == IF logistics_player # "All"
                     THEN SelectSeq(df, LAMBDA r : r.player = logistics_player)
                     ELSE df
    IN  IF hour_bin # txt_All
        THEN SelectSeq(by_player, LAMBDA r : r.Hour_Bin = hour_bin)
        ELSE by_player

\* app2.filter_hexagons: logistics_df['Time_Bin'].isin(selected_time_bins)
filter_app2(df, selected_time_bins) ==
    SelectSeq(df, LAMBDA r : r.Time_Bin \in selected_time_bins)

\* script.get_pincode_logistics: the two successive selections
filter_script(df, player, time_bin) ==
    LET by_player == IF player # "all"
                     THEN SelectSeq(df, LAMBDA r : r.player = player)
                     ELSE df
    IN  IF time_bin # "all"
        THEN SelectSeq(by_player, LAMBDA r : bin_astype_str(r.Time_Bin) = time_bin)
        ELSE by_player

\* df['Order Status'].str.strip().str.lower() == 'success': a missing value
\* stays missing and compares unequal
series_is_success(status) ==
    status # <<>> /\ str_lower(str_strip(status)) = SUCCESS

count_success(df) == Len(SelectSeq(df, LAMBDA r : series_is_success(r.status)))

\* the quotient without its guard; -1 stands for the division that fails
stats_rate_unguarded(success_orders, total_orders) ==
    IF total_orders = 0 THEN -1 ELSE round_rate(success_orders, total_orders, 10)

\* round((success / total * 100) if total > 0 else 0, 1), in 1/10 percent
stats_rate(success_orders, total_orders) ==
    IF total_orders > 0 THEN round_rate(success_orders, total_orders, 10) ELSE 0

\* script: (success / total * 100) if total > 0 else 0, unrounded, as num/den
stats_rate_exact(success_orders, total_orders) ==
    IF total_orders > 0
    THEN [num |-> success_orders * 100, den |-> total_orders]
    ELSE [num |-> 0, den |-> 1]

\* (lat, lng) keys in the order groupby sorts them
key_lt(p, q) == p[1] < q[1] \/ (p[1] = q[1] /\ p[2] < q[2])

RECURSIVE sorted_keys(_)
sorted_keys(S) ==
    IF S = {} THEN <<>>
    ELSE LET m == CHOOSE p \in S : \A q \in S : ~key_lt(q, p)
         IN  <<m>> \o sorted_keys(S \ {m})

\* df.groupby(['Restaurant Latitude', 'Restaurant Longitude']).size()
\*   .reset_index(name='count')
supply_grouped(df) ==
    LET keys == sorted_keys({<<df[i].lat, df[i].lng>> : i \in 1..Len(df)})
    IN  [n \in 1..Len(keys) |->
            [lat |-> keys[n][1], lng |-> keys[n][2],
             count |-> Cardinality({i \in 1..Len(df) :
                                      df[i].lat = keys[n][1] /\ df[i].lng = keys[n][2]})]]

\* every group listed
head_all(grouped, n) == grouped

\* supply_grouped.head(n)
head(grouped, n) == SubSeq(grouped, 1, min2(n, Len(grouped)))

\* the supply points of get_pincode_logistics: the first 100 groups, those
\* with coordinates in range
supply_points_of(df) ==
    SelectSeq(head(supply_grouped(df), 100), LAMBDA g : in_range(g.lat, g.lng))

NoRegion ==
    [hexagons |-> <<>>, outcome |-> "none", searched |-> FALSE, k |-> 0,
     processed |-> 0]

NoResponse == [code |-> 0]

NoEarlier == [request |-> <<>>]

\* the requests served at the same time
Threads == {1, 2}

NoWork == [pc |-> "idle", filtered_df |-> <<>>, i |-> 0, hexagons |-> <<>>]

\* the jsonify(...) of app1 and app2
filter_response(df) ==
    [code          |-> 200,
     hexagons      |-> create_h3_hexagons(df),
     total_orders  |-> Len(df),
     success_orders |-> count_success(df),
     success_rate  |-> stats_rate(count_success(df), Len(df))]

error_response(code, message) == [code |-> code, error |-> message]

\* app1.filter_hexagons, from the request's values to the filtered records
\* and the response
filter_hexagons_app1(df, logistics_player, hour_bin) ==
    LET filtered == filter_app1(df, logistics_player, hour_bin)
    IN  [filtered_df |-> filtered, response |-> filter_response(filtered)]

\* an empty selection served as a selection of everything
filter_hexagons_app2_passthrough(df, selected_time_bins) ==
    LET filtered == IF selected_time_bins = {} THEN df
                    ELSE filter_app2(df, selected_time_bins)
    IN  [filtered_df |-> filtered, response |-> filter_response(filtered)]

\* app2.filter_hexagons: an empty selection is refused before any filtering
filter_hexagons_app2(df, selected_time_bins) ==
    IF selected_time_bins = {}
    THEN [filtered_df |-> <<>>,
          response |-> error_response(400, "No time bins selected")]
    ELSE LET filtered == filter_app2(df, selected_time_bins)
         IN  [filtered_df |-> filtered, response |-> filter_response(filtered)]

(***************************************************************************)
(* Requests and the outcomes of the external services.                     *)
(***************************************************************************)
App1Requests ==
    [logistics_player : {"All", "X", "Q"},
     hour_bin : {txt_All, hour_bin_of(10), hour_bin_of(0)}]

App2Requests ==
    [time_bins : { {},
                   {"Morning (6AM-12PM)"},
                   {"Night (12AM-6AM)", "Morning (6AM-12PM)"},
                   {"Evening (6PM-12AM)"},
                   {"Night (12AM-6AM)", "Morning (6AM-12PM)",
                    "Afternoon (12PM-6PM)", "Evening (6PM-12AM)"} }]

ScriptRequests ==
    [lat : {29390}, lng : {78950}, resolution : {-1, 0, 8, 15, 16},
     logistics_player : {"all", "X"},
     time_bin : {"all", "Morning (6AM-12PM)"}]

Zoom1Resolutions == {-1, 0, 7, 8, 15, 16}

\* get_location_info: None on an exception, else the postcode of the address
\* (None when the address has none)
LocationOutcomes == {"exception", "no_postcode", "110001"}

rect(lat0, lng0, lat1, lng1) ==
    << <<lat0, lng0>>, <<lat0, lng1>>, <<lat1, lng1>>, <<lat1, lng0>> >>

\* the rings a way or an outer member of the boundary service may carry
WayRings ==
    { <<>>,
      << <<29380, 78940>>, <<29400, 78960>> >>,
      rect(29386, 78946, 29391, 78951),
      rect(29340, 78900, 29440, 79000),
      rect(29040, 78600, 29740, 79300),
      << <<29040, 78600>>, <<29040, 79300>>, <<29740, 78600>> >> }

\* no answer of the boundary service is at hand
NoLookup == [kind |-> "none", coords |-> <<>>]

\* the ways the lookup ends without a geometry: requests.post or
\* response.json() raises, the status is not 200, no element is a way with a
\* geometry or a relation with an outer member that has one
LookupFailures == {"exception", "status", "no_geometry"}

\* the boundary service fails, or answers with the ring of a way or of an
\* outer member
BoundaryOutcomes ==
    {[kind |-> f, coords |-> <<>>] : f \in LookupFailures} \cup
    {[kind |-> "geometry", coords |-> c] : c \in WayRings}

\* the ring of the answer handed on whatever the lookup's end
get_pincode_boundary_passing(lat, lng, outcome) == outcome.coords

\* get_pincode_boundary(lat, lng, pincode), given the service's answer
get_pincode_boundary(lat, lng, outcome) ==
    IF outcome.kind = "geometry" THEN outcome.coords
    ELSE create_approximate_boundary(lat, lng)

(***************************************************************************)
(* The state machine.                                                      *)
(***************************************************************************)
Init ==
    /\ app \in Apps
    /\ \E raw \in CsvFiles :
          /\ loaded = load(app, raw)
          /\ logistics_df = load(app, raw)
          \* the served programs start only on a non-empty record set
          /\ app # "zoom1" => Len(load(app, raw)) > 0
    /\ pc = "idle"
    /\ request = <<>>
    /\ pincode = ""
    /\ boundary = <<>>
    /\ filtered_df = <<>>
    /\ region = NoRegion
    /\ response = NoResponse
    /\ earlier = NoEarlier
    /\ workers = [t \in Threads |-> NoWork]
    /\ hexagon_data = [t \in Threads |-> <<>>]
    /\ overpass = NoLookup

Ready == pc = "idle"

\* the selection assigned to the module-level record set
app1_filter_hexagons_in_place ==
    /\ app = "app1" /\ Ready
    /\ \E req \in App1Requests :
          LET r == filter_hexagons_app1(logistics_df, req.logistics_player, req.hour_bin)
          IN  /\ request' = req
              /\ filtered_df' = r.filtered_df
              /\ logistics_df' = r.filtered_df
              /\ response' = r.response
    /\ pc' = "done"
    /\ UNCHANGED <<app, loaded, earlier, workers, hexagon_data, pincode, boundary, overpass, region>>

\* app1: POST /filter_hexagons
app1_filter_hexagons ==
    /\ app = "app1" /\ Ready
    /\ \E req \in App1Requests :
          LET r == filter_hexagons_app1(logistics_df, req.logistics_player, req.hour_bin)
          IN  /\ request' = req
              /\ filtered_df' = r.filtered_df
              /\ response' = r.response
    /\ pc' = "done"
    /\ UNCHANGED <<app, loaded, earlier, workers, hexagon_data, logistics_df, pincode, boundary, overpass, region>>

\* the selection assigned to the module-level record set
app2_filter_hexagons_in_place ==
    /\ app = "app2" /\ Ready
    /\ \E req \in App2Requests :
          LET r == filter_hexagons_app2(logistics_df, req.time_bins)
          IN  /\ request' = req
              /\ filtered_df' = r.filtered_df
              /\ logistics_df' = IF req.time_bins = {} THEN logistics_df
                                 ELSE r.filtered_df
              /\ response' = r.response
    /\ pc' = "done"
    /\ UNCHANGED <<app, loaded, earlier, workers, hexagon_data, pincode, boundary, overpass, region>>

\* app2: POST /filter_hexagons
app2_filter_hexagons ==
    /\ app = "app2" /\ Ready
    /\ \E req \in App2Requests :
          LET r == filter_hexagons_app2(logistics_df, req.time_bins)
          IN  /\ request' = req
              /\ filtered_df' = r.filtered_df
              /\ response' = r.response
    /\ pc' = "done"
    /\ UNCHANGED <<app, loaded, earlier, workers, hexagon_data, logistics_df, pincode, boundary, overpass, region>>

\* zoom1: create_map_with_h3_and_pincodes(..., resolution)
zoom1_create_map ==
    /\ app = "zoom1" /\ Ready
    /\ \E resolution \in Zoom1Resolutions :
          /\ request' = [resolution |-> resolution]
          /\ response' = [code |-> 200,
                          hexagons |-> create_h3_hexagons_zoom1(logistics_df, resolution)]
    /\ filtered_df' = logistics_df
    /\ pc' = "done"
    /\ UNCHANGED <<app, loaded, earlier, workers, hexagon_data, logistics_df, pincode, boundary, overpass, region>>

\* script: POST /get_pincode_logistics arrives
script_receive ==
    /\ app = "script" /\ Ready
    /\ \E req \in ScriptRequests : request' = req
    /\ pc' = "get_location_info"
    /\ UNCHANGED <<app, loaded, earlier, workers, hexagon_data, logistics_df, pincode, boundary, overpass, filtered_df, region, response>>

\* the handler going on to the boundary lookup whatever the lookup returned
script_get_location_info_unchecked ==
    /\ app = "script" /\ pc = "get_location_info"
    /\ \E outcome \in LocationOutcomes :
          /\ pincode' = IF outcome \in {"exception", "no_postcode"} THEN "" ELSE outcome
          /\ pc' = "get_pincode_boundary"
          /\ response' = response
    /\ UNCHANGED <<app, loaded, earlier, workers, hexagon_data, logistics_df, request, boundary, overpass, filtered_df, region>>

\* script: get_location_info and the check of its result
script_get_location_info ==
    /\ app = "script" /\ pc = "get_location_info"
    /\ \E outcome \in LocationOutcomes :
          IF outcome \in {"exception", "no_postcode"}
          THEN /\ response' = error_response(400, "Could not find pincode for this location")
               /\ pc' = "done"
               /\ pincode' = pincode
          ELSE /\ pincode' = outcome
               /\ pc' = "get_pincode_boundary"
               /\ response' = response
    /\ UNCHANGED <<app, loaded, earlier, workers, hexagon_data, logistics_df, request, boundary, overpass, filtered_df, region>>

\* script: get_pincode_boundary
script_get_pincode_boundary ==
    /\ app = "script" /\ pc = "get_pincode_boundary"
    /\ \E outcome \in BoundaryOutcomes :
          /\ overpass' = outcome
          /\ boundary' = get_pincode_boundary(request.lat, request.lng, outcome)
    /\ pc' = "filter_and_fill"
    /\ UNCHANGED <<app, loaded, earlier, workers, hexagon_data, logistics_df, request, pincode, filtered_df, region, response>>

\* script: the filter, fill_polygon_with_hexagons, the statistics, the response
script_fill_and_respond ==
    /\ app = "script" /\ pc = "filter_and_fill"
    /\ LET df   == filter_script(logistics_df, request.logistics_player, request.time_bin)
           fill == fill_polygon_with_hexagons(boundary, request.resolution, df)
       IN  /\ filtered_df' = df
           /\ region' = fill
           /\ response' = [code         |-> 200,
                           pincode      |-> pincode,
                           boundary     |-> boundary,
                           hexagons     |-> fill.hexagons,
                           supply_points |-> supply_points_of(df),
                           total_orders |-> Len(df),
                           success_rate |-> stats_rate_exact(count_success(df), Len(df)),
                           stats_supply_points |-> Len(supply_points_of(df))]
    /\ pc' = "done"
    /\ UNCHANGED <<app, loaded, earlier, workers, hexagon_data, logistics_df, request, pincode, boundary, overpass>>

\* the response is sent and the handler's locals are gone; the process waits
\* for the next request
handler_returns ==
    /\ pc = "done"
    /\ pc' = "idle"
    /\ request' = <<>>
    /\ pincode' = ""
    /\ boundary' = <<>>
    /\ overpass' = NoLookup
    /\ filtered_df' = <<>>
    /\ region' = NoRegion
    /\ response' = NoResponse
    /\ UNCHANGED <<app, loaded, earlier, workers, hexagon_data, logistics_df>>

Next ==
    \/ app1_filter_hexagons
    \/ app2_filter_hexagons
    \/ zoom1_create_map
    \/ script_receive
    \/ script_get_location_info
    \/ script_get_pincode_boundary
    \/ script_fill_and_respond
    \/ handler_returns

Spec == Init /\ [][Next]_vars

(***************************************************************************)
(* Repeated requests: the filter handlers and the one-shot map, with one   *)
(* answer kept aside when its handler returns.                             *)
(***************************************************************************)
\* the handler returns and its answer is the one kept
returns_remembering ==
    /\ pc = "done" /\ response.code = 200
    /\ earlier = NoEarlier
    /\ earlier' = [request |-> request, hexagons |-> response.hexagons,
                   between |-> FALSE]
    /\ pc' = "idle"
    /\ request' = <<>>
    /\ filtered_df' = <<>>
    /\ response' = NoResponse
    /\ UNCHANGED <<app, loaded, workers, hexagon_data, logistics_df, pincode, boundary, overpass, region>>

\* the handler returns; a request other than the kept one is noted
returns_noting ==
    /\ pc = "done"
    /\ earlier' = IF earlier # NoEarlier /\ request # earlier.request
                  THEN [earlier EXCEPT !.between = TRUE]
                  ELSE earlier
    /\ pc' = "idle"
    /\ request' = <<>>
    /\ filtered_df' = <<>>
    /\ response' = NoResponse
    /\ UNCHANGED <<app, loaded, workers, hexagon_data, logistics_df, pincode, boundary, overpass, region>>

InitRepeated == Init /\ app # "script"

NextRepeated ==
    \/ app1_filter_hexagons
    \/ app2_filter_hexagons
    \/ zoom1_create_map
    \/ returns_remembering
    \/ returns_noting

SpecRepeated == InitRepeated /\ [][NextRepeated]_vars

(***************************************************************************)
(* Concurrent requests to app1 (the server runs one thread per request):   *)
(* filter_hexagons and create_h3_hexagons one record at a time.            *)
(***************************************************************************)
\* every call works on one mapping for all the requests
shared_mapping(t) == 1

\* hexagon_data = defaultdict(...) is a local of the call: each request
\* works on the mapping it constructed
own_mapping(t) == t

\* filter_hexagons up to the call of create_h3_hexagons, which constructs
\* its mapping
worker_filter(t) ==
    /\ workers[t].pc = "idle"
    /\ \E req \in App1Requests :
          workers' = [workers EXCEPT ![t] =
              [pc |-> "loop",
               filtered_df |-> filter_app1(logistics_df, req.logistics_player,
                                           req.hour_bin),
               i |-> 1, hexagons |-> <<>>]]
    /\ hexagon_data' = [hexagon_data EXCEPT ![own_mapping(t)] = <<>>]

\* one iteration of for _, row in df.iterrows()
worker_step(t) ==
    /\ workers[t].pc = "loop"
    /\ workers[t].i <= Len(workers[t].filtered_df)
    /\ hexagon_data' = [hexagon_data EXCEPT ![own_mapping(t)] =
                            step_indexed(@, workers[t].filtered_df[workers[t].i])]
    /\ workers' = [workers EXCEPT ![t].i = @ + 1]

\* the loop is over: the Features are built from the mapping
worker_emit(t) ==
    /\ workers[t].pc = "loop"
    /\ workers[t].i > Len(workers[t].filtered_df)
    /\ workers' = [workers EXCEPT ![t].pc = "done",
                                  ![t].hexagons = emit_features(hexagon_data[own_mapping(t)])]
    /\ UNCHANGED hexagon_data

\* the response is sent
worker_returns(t) ==
    /\ workers[t].pc = "done"
    /\ workers' = [workers EXCEPT ![t] = NoWork]
    /\ hexagon_data' = [hexagon_data EXCEPT ![own_mapping(t)] = <<>>]

InitInterleaved == Init /\ app = "app1" /\ Len(logistics_df) <= MaxRows

NextInterleaved ==
    /\ \E t \in Threads :
          \/ worker_filter(t)
          \/ worker_step(t)
          \/ worker_emit(t)
          \/ worker_returns(t)
    /\ UNCHANGED <<app, loaded, logistics_df, pc, request, pincode, boundary, overpass,
                   filtered_df, region, response, earlier>>

SpecInterleaved == InitInterleaved /\ [][NextInterleaved]_vars

(***************************************************************************)
(* The region-fill request on its own, with the progress its code has:     *)
(* the handler is straight-line code, its two lookups are calls with a     *)
(* timeout (timeout=10, timeout=30), so a step that is due is taken.       *)
(***************************************************************************)
InitRegionFill == Init /\ app = "script" /\ Len(logistics_df) <= MaxFillRows

NextRegionFill ==
    \/ script_receive
    \/ script_get_location_info
    \/ script_get_pincode_boundary
    \/ script_fill_and_respond
    \/ handler_returns

\* weak fairness of script_fill_and_respond, written out: the step is enabled
\* exactly where the handler stands before the filter, and taking it leaves
\* that position, so WF_vars(script_fill_and_respond) is
\* []<>~ENABLED <<script_fill_and_respond>>_vars, that is:
fill_and_respond_is_taken == []<>(pc # "filter_and_fill")

SpecRegionFill ==
    /\ InitRegionFill
    /\ [][NextRegionFill]_vars
    /\ WF_vars(script_get_location_info)
    /\ WF_vars(script_get_pincode_boundary)
    /\ fill_and_respond_is_taken

(***************************************************************************)
(* The aggregation pass on its own, on one record set in two orders: the   *)
(* first pass takes the records as loaded, the second in a permutation.    *)
(***************************************************************************)
\* the records of df in the order p
permuted(df, p) == [i \in 1..Len(df) |-> df[p[i]]]

\* the create_h3_hexagons of the program
create_h3_hexagons_of(a, df, resolution) ==
    IF a = "zoom1" THEN create_h3_hexagons_zoom1(df, resolution)
    ELSE create_h3_hexagons(df)

InitPermuted ==
    /\ Init
    /\ app \in {"app1", "app2", "zoom1"}
    /\ Len(logistics_df) <= MaxRows

\* create_h3_hexagons called on the records and on a permutation of them
create_in_two_orders ==
    /\ \A t \in Threads : workers[t].pc = "idle"
    /\ \E p \in Permutations(1..Len(logistics_df)),
          resolution \in IF app = "zoom1" THEN {7, 8} ELSE {8} :
          workers' = [t \in Threads |->
              LET df == IF t = 1 THEN logistics_df ELSE permuted(logistics_df, p)
              IN  [pc |-> "done", filtered_df |-> df, i |-> Len(df) + 1,
                   hexagons |-> create_h3_hexagons_of(app, df, resolution)]]
    /\ UNCHANGED <<app, loaded, logistics_df, pc, request, pincode, boundary, overpass,
                   filtered_df, region, response, earlier, hexagon_data>>

\* both results are handed back
both_return ==
    /\ \A t \in Threads : workers[t].pc = "done"
    /\ workers' = [t \in Threads |-> NoWork]
    /\ UNCHANGED <<app, loaded, logistics_df, pc, request, pincode, boundary, overpass,
                   filtered_df, region, response, earlier, hexagon_data>>

NextPermuted ==
    \/ create_in_two_orders
    \/ both_return

SpecPermuted == InitPermuted /\ [][NextPermuted]_vars

(***************************************************************************)
(* The emitters on their own: one CellStats entry, of a small total or of  *)
(* a total around the one where a single order is half of the last digit   *)
(* round(success_rate, 2) keeps, goes through the emitter of the program.  *)
(***************************************************************************)
\* the total at which one order is 0.005 percent: 100 * 1 / total, in
\* hundredths of a percent, is one half
CollapsingTotal == 2 * 100 * 100

\* the totals of the entries; CollapsingTotal itself is left out, where the
\* tie is not a binary fraction and round() follows the float it is handed
CellTotals == (1..MaxCellOrders) \cup {CollapsingTotal - 1, CollapsingTotal + 1}

\* an entry of hexagon_data as the passes leave it: success and fail add up
\* to the total, one restaurant location
CellStatsEntries ==
    LET counts == {0, 1, 2} \cup {t - d : t \in CellTotals, d \in {0, 1, 2}}
        pairs  == {q \in CellTotals \X counts : q[2] >= 0 /\ q[2] <= q[1]}
    IN  {[h3_index       |-> latlng_to_cell(29390, 78950, 8),
          total_orders   |-> q[1],
          success_orders |-> q[2],
          fail_orders    |-> q[1] - q[2],
          coords         |-> {<<29390, 78950>>}] : q \in pairs}

InitEmit ==
    /\ app \in Apps
    /\ loaded = <<>>
    /\ logistics_df = <<>>
    /\ pc = "idle"
    /\ request = <<>>
    /\ pincode = ""
    /\ boundary = <<>>
    /\ filtered_df = <<>>
    /\ region = NoRegion
    /\ response = NoResponse
    /\ earlier = NoEarlier
    /\ workers = [t \in Threads |-> NoWork]
    /\ overpass = NoLookup
    /\ \E cell \in CellStatsEntries :
          hexagon_data = [t \in Threads |-> IF t = 1 THEN <<cell>> ELSE <<>>]

\* app1, app2, zoom1: the Features of the mapping
features_emit ==
    /\ app # "script" /\ Ready
    /\ response' = [code |-> 200, hexagons |-> emit_features(hexagon_data[1])]
    /\ pc' = "done"
    /\ UNCHANGED <<app, loaded, logistics_df, request, pincode, boundary, overpass,
                   filtered_df, region, earlier, workers, hexagon_data>>

\* script: the hexagon summaries of the mapping
hexagons_emit ==
    /\ app = "script" /\ Ready
    /\ response' = [code |-> 200, hexagons |-> emit_hexagons(hexagon_data[1])]
    /\ pc' = "done"
    /\ UNCHANGED <<app, loaded, logistics_df, request, pincode, boundary, overpass,
                   filtered_df, region, earlier, workers, hexagon_data>>

NextEmit ==
    \/ features_emit
    \/ hexagons_emit

SpecEmit == InitEmit /\ [][NextEmit]_vars

(***************************************************************************)
(* Properties.                                                             *)
(***************************************************************************)
\* a handler has answered with a result (not with an error response)
Responded == pc = "done" /\ response.code = 200

\* the emitted cells of the response: Features (app1, app2, zoom1) or
\* hexagon summaries (script)
Emitted == response.hexagons

\* the cell the pass puts a record in
CellOf(row) ==
    IF app \in {"app1", "app2"} THEN row.h3_index_id
    ELSE latlng_to_cell(row.lat, row.lng, request.resolution)

\* the filtered records that pass the coordinate validation
Survivors == {i \in 1..Len(filtered_df) : in_range(filtered_df[i].lat, filtered_df[i].lng)}

RowsOfCell(c) == {i \in Survivors : CellOf(filtered_df[i]) = c}

RECURSIVE SumTotal(_, _)
SumTotal(cells, i) ==
    IF i > Len(cells) THEN 0 ELSE cells[i].total_orders + SumTotal(cells, i + 1)

RECURSIVE SumSuccess(_, _)
SumSuccess(cells, i) ==
    IF i > Len(cells) THEN 0 ELSE cells[i].success_orders + SumSuccess(cells, i + 1)

\* C1: after every aggregation pass, each emitted cell (Feature or hexagon
\* summary) has success_orders + fail_orders = total_orders
C1_CountsAddUp ==
    Responded =>
        \A i \in 1..Len(Emitted) :
            Emitted[i].success_orders + Emitted[i].fail_orders = Emitted[i].total_orders

\* C1 witness: a pass of create_h3_hexagons that skipped a record and emitted
\* a cell holding a success and a failure
C1_Witness ==
    /\ Responded /\ app = "app1"
    /\ \E i \in 1..Len(filtered_df) : i \notin Survivors
    /\ \E i \in 1..Len(Emitted) :
          /\ Emitted[i].total_orders = 2
          /\ Emitted[i].success_orders = 1
          /\ Emitted[i].fail_orders = 1

\* C2: the Features partition the validated records: every filtered record
\* with in-range coordinates is counted in exactly one Feature, and the
\* total_orders of all Features add up to the number of such records
C2_Partition ==
    (Responded /\ app \in {"app1", "app2", "zoom1"}) =>
        /\ SumTotal(Emitted, 1) = Cardinality(Survivors)
        /\ \A r \in Survivors :
              Cardinality({i \in 1..Len(Emitted) :
                              Emitted[i].h3_index = CellOf(filtered_df[r])}) = 1

\* C2 at the resolutions the grid supports (zoom1 is the one program whose
\* Features depend on a resolution argument): the partition holds
C2_PartitionAtSupportedResolution ==
    (/\ Responded /\ app \in {"app1", "app2", "zoom1"}
     /\ app = "zoom1" => valid_resolution(request.resolution)) =>
        /\ SumTotal(Emitted, 1) = Cardinality(Survivors)
        /\ \A r \in Survivors :
              Cardinality({i \in 1..Len(Emitted) :
                              Emitted[i].h3_index = CellOf(filtered_df[r])}) = 1
        /\ \A i \in 1..Len(Emitted) :
              Emitted[i].total_orders = Cardinality(RowsOfCell(Emitted[i].h3_index))

\* the claimed reading of an order status: after trimming whitespace and
\* lower-casing it is the word "success"; a missing value is not
ReadsAsSuccess(status) ==
    status # <<>> /\ str_lower(str_strip(status)) = <<"s","u","c","c","e","s","s">>

\* C3: each aggregated record increments exactly one counter of its cell,
\* success iff its status reads as "success" after strip and lower, and fail
\* for every other value, missing and garbled ones included
C3_StatusSplit ==
    Responded =>
        \A i \in 1..Len(Emitted) :
            LET rows == RowsOfCell(Emitted[i].h3_index)
                good == {r \in rows : ReadsAsSuccess(filtered_df[r].status)}
            IN  /\ Emitted[i].success_orders = Cardinality(good)
                /\ Emitted[i].fail_orders = Cardinality(rows \ good)

\* C3 witness: a pass that counted a status with blanks and capitals as a
\* success and a missing status as a failure
C3_Witness ==
    /\ Responded /\ app = "app1"
    /\ \E i, j \in 1..Len(Emitted) :
          /\ \E r \in RowsOfCell(Emitted[i].h3_index) :
                filtered_df[r].status = txt_garbled
          /\ Emitted[i].success_orders = 1 /\ Emitted[i].fail_orders = 0
          /\ \E r \in RowsOfCell(Emitted[j].h3_index) : filtered_df[r].status = <<>>
          /\ Emitted[j].success_orders = 0 /\ Emitted[j].fail_orders = 1

\* the records the request's predicates select, as the specification of the
\* RecordFilter states them
Selected ==
    IF app = "app1"
    THEN SelectSeq(logistics_df, LAMBDA r :
             /\ request.logistics_player = "All" \/ r.player = request.logistics_player
             /\ request.hour_bin = <<"A","l","l">> \/ r.Hour_Bin = request.hour_bin)
    ELSE IF app = "app2"
    THEN SelectSeq(logistics_df, LAMBDA r : r.Time_Bin \in request.time_bins)
    ELSE SelectSeq(logistics_df, LAMBDA r :
             /\ request.logistics_player = "all" \/ r.player = request.logistics_player
             /\ request.time_bin = "all" \/ r.Time_Bin = request.time_bin)

\* the handler got as far as filtering the records
Filtered ==
    /\ pc = "done"
    /\ \/ app = "app1"
       \/ app = "app2" /\ request.time_bins # {}
       \/ app = "script" /\ pincode # ""

\* C4: the filtered records are exactly the loaded records that satisfy every
\* predicate of the request: the provider is "all" or equal to the record's,
\* and the time bin is "all" or equal to the record's or, for a whitelist,
\* holds the record's
C4_FilterExact == Filtered => filtered_df = Selected

\* C4 witness: a request with both predicates that keeps a record and drops
\* one for its hour bin and one for its provider
C4_Witness ==
    /\ Filtered /\ app = "app1"
    /\ request.logistics_player = "X" /\ request.hour_bin = hour_bin_of(10)
    /\ Len(filtered_df) >= 1
    /\ \E i \in 1..Len(logistics_df) :
          logistics_df[i].player = "X" /\ logistics_df[i].Hour_Bin # request.hour_bin
    /\ \E i \in 1..Len(logistics_df) :
          logistics_df[i].player # "X"

AllSentinels ==
    \/ /\ app = "app1"
       /\ request.logistics_player = "All" /\ request.hour_bin = <<"A","l","l">>
    \/ /\ app = "script"
       /\ request.logistics_player = "all" /\ request.time_bin = "all"

\* C5: with both values the "all" sentinel the filter passes every loaded
\* record, and the result is the aggregation of the whole record set
C5_AllIsPassThrough ==
    (Filtered /\ AllSentinels) =>
        /\ filtered_df = logistics_df
        /\ response.code = 200
        /\ IF app = "app1"
           THEN response.hexagons = create_h3_hexagons(logistics_df)
           ELSE response.hexagons =
                    fill_polygon_with_hexagons(boundary, request.resolution,
                                               logistics_df).hexagons

\* C5 witness: an "all"/"all" request of app1 on records of two providers
C5_Witness ==
    /\ Filtered /\ AllSentinels /\ app = "app1"
    /\ \E i, j \in 1..Len(logistics_df) :
          logistics_df[i].player # logistics_df[j].player
    /\ Len(response.hexagons) >= 2

EmptySelection == app = "app2" /\ pc = "done" /\ request.time_bins = {}

\* C6 as claimed: an empty time-bin selection is passed through and answered
\* with the aggregation of every loaded record
C6_EmptySelectionPassThrough ==
    EmptySelection =>
        /\ response.code = 200
        /\ filtered_df = logistics_df
        /\ response.hexagons = create_h3_hexagons(logistics_df)

\* C6 amended: an empty time-bin selection is refused with the 400 response
\* "No time bins selected"; nothing is filtered or aggregated
C6_EmptySelectionRefused ==
    EmptySelection =>
        /\ response.code = 400
        /\ response.error = "No time bins selected"
        /\ "hexagons" \notin DOMAIN response
        /\ filtered_df = <<>>

\* C6 witness: an empty selection sent to app2
C6_Witness == EmptySelection /\ Len(logistics_df) >= 1

\* C7: when the predicates select no record the request succeeds with no
\* cell and a success rate of exactly 0
C7_EmptyResult ==
    (Filtered /\ Selected = <<>>) =>
        /\ response.code = 200
        /\ response.hexagons = <<>>
        /\ response.total_orders = 0
        /\ IF app = "script" THEN response.success_rate.num = 0
           ELSE response.success_rate = 0

\* C7 witness: a provider no record has
C7_Witness ==
    /\ Filtered /\ app = "app1" /\ request.logistics_player = "Q"
    /\ Len(logistics_df) >= 1
    /\ response.code = 200

\* an aggregation was requested at the resolution request.resolution
AggregationRequested ==
    /\ pc = "done"
    /\ \/ app = "zoom1"
       \/ app = "script" /\ region.outcome # "none"

\* C8: an aggregation at a resolution outside 0..15 ends as a failure of the
\* request, never as an empty or partial result; within the range it succeeds
C8_InvalidResolutionFails ==
    AggregationRequested =>
        IF valid_resolution(request.resolution)
        THEN response.code = 200
        ELSE response.code # 200

DegenerateFill ==
    /\ app = "script" /\ pc = "done" /\ region.outcome # "none"
    /\ Len(boundary) < 3

\* C9: a boundary of fewer than 3 vertices makes the region fill return an
\* empty list before any record is processed, and the request still answers
\* with its result envelope
C9_DegenerateBoundary ==
    DegenerateFill =>
        /\ region.outcome = "degenerate"
        /\ region.hexagons = <<>>
        /\ region.processed = 0
        /\ ~region.searched
        /\ response.code = 200
        /\ response.hexagons = <<>>
        /\ response.boundary = boundary
        /\ response.pincode = pincode
        /\ response.total_orders = Len(filtered_df)

\* C9 witness: a two-vertex boundary with records to aggregate
C9_Witness ==
    /\ DegenerateFill /\ Len(boundary) = 2
    /\ valid_resolution(request.resolution)
    /\ Len(filtered_df) >= 2

\* int(bbox_area * 1000 / (resolution + 1)) of the boundary, the area in
\* square degrees
UnclampedRadius ==
    LET lats == {boundary[i][1] : i \in 1..Len(boundary)}
        lngs == {boundary[i][2] : i \in 1..Len(boundary)}
        dlat == SetMax(lats) - SetMin(lats)
        dlng == SetMax(lngs) - SetMin(lngs)
    IN  (dlat * dlng * 1000) \div (1024 * 1024 * (request.resolution + 1))

\* C10: the radius k handed to the neighbour search is within 0..50, and is
\* exactly 50 when the unclamped value exceeds 50
C10_DiskRadiusCapped ==
    region.searched =>
        /\ 0 <= region.k /\ region.k <= 50
        /\ UnclampedRadius > 50 => region.k = 50

\* C10 witness: a boundary whose unclamped radius exceeds 50
C10_Witness ==
    /\ region.searched /\ region.k = 50
    /\ request.resolution = 8
    /\ UnclampedRadius > 50

\* the region fill ran its loop over the filtered records
Filled == app = "script" /\ pc = "done" /\ region.outcome = "filled"

\* the region polygon of the request, (lng, lat) vertices in the units of the
\* cell corners at the requested resolution
RegionPolygon ==
    LET f == IF request.resolution > 11 THEN 2 ^ (request.resolution - 11) ELSE 1
    IN  [i \in 1..Len(boundary) |-> <<boundary[i][2] * f, boundary[i][1] * f>>]

\* the cell of the centre of the boundary's bounding box
CentreCell ==
    LET lats == {boundary[i][1] : i \in 1..Len(boundary)}
        lngs == {boundary[i][2] : i \in 1..Len(boundary)}
    IN  latlng2_to_cell(SetMin(lats) + SetMax(lats), SetMin(lngs) + SetMax(lngs),
                        request.resolution)

CellIntersectsRegion(c) ==
    polygon_intersects(RegionPolygon, swap_axes(cell_to_boundary(c)))

\* the cells that survive "discard the candidates that do not intersect":
\* in the disk of radius k around the centre cell and intersecting the region
KeptCells ==
    {c \in {CellOf(filtered_df[r]) : r \in Survivors} :
        in_grid_disk(c, CentreCell, region.k) /\ CellIntersectsRegion(c)}

\* C11: the region fill returns exactly one entry per kept cell holding at
\* least one filtered in-range record, with total_orders the number of those
\* records: testing the intersection per record gives the result of
\* discarding the non-intersecting candidates first and aggregating after
C11_FillExact ==
    Filled =>
        /\ \A c \in KeptCells :
              Cardinality({i \in 1..Len(region.hexagons) :
                              region.hexagons[i].h3_index = c}) = 1
        /\ \A i \in 1..Len(region.hexagons) :
              /\ region.hexagons[i].h3_index \in KeptCells
              /\ region.hexagons[i].total_orders =
                    Cardinality(RowsOfCell(region.hexagons[i].h3_index))

\* C11 witness: a fill that kept a cell and dropped a record whose cell is in
\* the disk but does not intersect the region
C11_Witness ==
    /\ Filled /\ Len(region.hexagons) >= 1
    /\ \E r \in Survivors :
          /\ in_grid_disk(CellOf(filtered_df[r]), CentreCell, region.k)
          /\ ~CellIntersectsRegion(CellOf(filtered_df[r]))

\* C12: every filtered in-range record whose cell intersects the region
\* polygon is counted in some returned hexagon
C12_FillCovers ==
    Filled =>
        \A r \in Survivors :
            CellIntersectsRegion(CellOf(filtered_df[r])) =>
                \E i \in 1..Len(region.hexagons) :
                    region.hexagons[i].h3_index = CellOf(filtered_df[r])

\* processing the record raises inside the per-record try block: the grid
\* library refuses the resolution of the call (zoom1 computes the cell per
\* record; app1 and app2 read the cell stored at load time)
Raises(r) == app = "zoom1" /\ ~(request.resolution \in 0..15)

\* the validated records whose processing does not raise
Processed == {r \in Survivors : ~Raises(r)}

WithinBounds(row) ==
    /\ -90 * 1024 <= row.lat /\ row.lat <= 90 * 1024
    /\ -180 * 1024 <= row.lng /\ row.lng <= 180 * 1024

\* the handler ran its aggregation pass
Aggregated == Filtered \/ (pc = "done" /\ app = "zoom1")

\* the aggregation the request's pass computes from a record set
AggregationOf(df) ==
    IF app \in {"app1", "app2"} THEN create_h3_hexagons(df)
    ELSE IF app = "zoom1" THEN create_h3_hexagons_zoom1(df, request.resolution)
    ELSE fill_polygon_with_hexagons(boundary, request.resolution, df).hexagons

\* C14: records with a latitude or longitude out of range count for nothing:
\* the pass succeeds and its cells, with their total, success, fail and
\* distinct-point counts, are those of the record set without these records
C14_OutOfRangeDropped ==
    Aggregated =>
        /\ response.code = 200
        /\ response.hexagons = AggregationOf(SelectSeq(filtered_df, WithinBounds))
        /\ \A i \in 1..Len(Emitted) :
              \E r \in 1..Len(filtered_df) :
                  /\ WithinBounds(filtered_df[r])
                  /\ CellOf(filtered_df[r]) = Emitted[i].h3_index

\* C14 witness: a pass over records one of which has a latitude of 91 degrees
C14_Witness ==
    /\ Aggregated /\ app = "app1"
    /\ \E r \in 1..Len(filtered_df) : ~WithinBounds(filtered_df[r])
    /\ Len(Emitted) >= 1

\* the request being answered is the one whose answer was kept
AnsweredAgain ==
    /\ pc = "done" /\ response.code = 200
    /\ earlier # [request |-> <<>>]
    /\ earlier.request = request

\* C15: a request answered again, whatever was served in between, gets the
\* cells it got before, with the same total, success, fail and distinct-point
\* counts
C15_Idempotent ==
    AnsweredAgain =>
        /\ Len(response.hexagons) = Len(earlier.hexagons)
        /\ \A i \in 1..Len(response.hexagons) :
              \E j \in 1..Len(earlier.hexagons) :
                  LET now == response.hexagons[i]
                      was == earlier.hexagons[j]
                  IN  /\ now.h3_index = was.h3_index
                      /\ now.total_orders = was.total_orders
                      /\ now.success_orders = was.success_orders
                      /\ now.fail_orders = was.fail_orders
                      /\ now.unique_restaurants = was.unique_restaurants

\* C15 witness: the same request answered a second time after another
\* request that selected fewer records
C15_Witness ==
    /\ AnsweredAgain /\ app = "app1" /\ earlier.between
    /\ Len(response.hexagons) >= 2

\* C17: the record set the handlers read is the one the loader returned at
\* startup, whatever requests were served
C17_DatasetUnchanged == logistics_df = loaded

\* C17 witness: a handler has answered a request that selected a part of the
\* records
C17_Witness ==
    /\ pc = "done" /\ response.code = 200
    /\ Len(filtered_df) >= 1
    /\ Len(filtered_df) < Len(logistics_df)
    /\ logistics_df = loaded

\* C16: whatever the interleaving of the two requests, the mapping of each
\* holds the counts of the records it has gone through itself, and its
\* Features are those of its records aggregated alone
C16_Isolation ==
    \A t \in {1, 2} :
        /\ workers[t].pc = "loop" =>
              hexagon_data[t] =
                  fold_indexed(<<>>, SubSeq(workers[t].filtered_df, 1, workers[t].i - 1), 1)
        /\ workers[t].pc = "done" =>
              workers[t].hexagons = create_h3_hexagons(workers[t].filtered_df)

\* C16 witness: one request finished while the other was in the middle of
\* its loop, both counting records of the same cell
C16_Witness ==
    /\ workers[1].pc = "loop" /\ workers[1].i = 2
    /\ Len(workers[1].filtered_df) >= 2
    /\ workers[2].pc = "done"
    /\ \E j \in 1..Len(workers[2].hexagons) :
          /\ workers[2].hexagons[j].total_orders >= 2
          /\ \E c \in 1..Len(hexagon_data[1]) :
                hexagon_data[1][c].h3_index = workers[2].hexagons[j].h3_index

\* the restaurant locations of the selected records
SelectedLocations == {<<Selected[r].lat, Selected[r].lng>> : r \in 1..Len(Selected)}

\* C18: the supply points of a region-fill response are at most 100, one per
\* location, each with the number of selected records at exactly its
\* location, counted over the whole selection and not over the region; when
\* the selection has at most 100 locations every in-range one is listed
C18_SupplyPoints ==
    (Responded /\ app = "script") =>
        LET sp == response.supply_points
        IN  /\ Len(sp) <= 100
            /\ response.stats_supply_points = Len(sp)
            /\ \A i \in 1..Len(sp) :
                  /\ sp[i].count >= 1
                  /\ sp[i].count =
                        Cardinality({r \in 1..Len(Selected) :
                                        /\ Selected[r].lat = sp[i].lat
                                        /\ Selected[r].lng = sp[i].lng})
                  /\ \A j \in 1..Len(sp) :
                        (sp[j].lat = sp[i].lat /\ sp[j].lng = sp[i].lng) => j = i
            /\ Cardinality(SelectedLocations) <= 100 =>
                  \A p \in SelectedLocations :
                      WithinBounds([lat |-> p[1], lng |-> p[2]]) =>
                          \E i \in 1..Len(sp) : sp[i].lat = p[1] /\ sp[i].lng = p[2]

\* C18 witness: a selection of more than 100 locations, listed up to the cap,
\* for a region in which no hexagon was returned
C18_Witness ==
    /\ Responded /\ app = "script"
    /\ Cardinality(SelectedLocations) > 100
    /\ Len(response.supply_points) = 100
    /\ response.hexagons = <<>>

\* the boundary lookup of the request being served ended without a geometry
LookupFailed == app = "script" /\ overpass.kind \in LookupFailures

\* C19: when the boundary lookup raises, answers with another status than
\* 200 or carries no way or outer-member geometry, the boundary handed on is
\* the 32-vertex ring around the clicked coordinate (2 km: 18 units north and
\* south of it), the region fill runs on that ring past its vertex guard, and
\* the request answers with its result envelope and never with an error
C19_LookupFallback ==
    LookupFailed =>
        /\ pc \in {"filter_and_fill", "done"}
        /\ Len(boundary) = 32
        /\ boundary[1] = <<request.lat + 18, request.lng>>
        /\ boundary[17] = <<request.lat - 18, request.lng>>
        /\ \A n \in 1..32 :
              /\ boundary[n][1] >= request.lat - 18
              /\ boundary[n][1] <= request.lat + 18
              /\ boundary[n][2] >= request.lng - 24
              /\ boundary[n][2] <= request.lng + 24
        /\ pc = "done" =>
              /\ response.code = 200
              /\ response.boundary = boundary
              /\ region.outcome \notin {"none", "degenerate"}

\* C19 witness: the lookup raised, and the fill on the substituted ring
\* returned a cell
C19_Witness ==
    /\ LookupFailed /\ overpass.kind = "exception"
    /\ pc = "done"
    /\ Len(boundary) = 32
    /\ Len(response.hexagons) >= 1

\* the success rate of an emitted cell is within 0 and 100 percent
RateInRange(c) ==
    IF app = "script"
    THEN /\ c.success_rate.den >= 1
         /\ c.success_rate.num >= 0
         /\ c.success_rate.num <= 100 * c.success_rate.den
    ELSE c.success_rate >= 0 /\ c.success_rate <= 10000

\* it is 0 percent
RateIsZero(c) ==
    IF app = "script" THEN c.success_rate.num = 0 ELSE c.success_rate = 0

\* it is 100 percent
RateIsHundred(c) ==
    IF app = "script"
    THEN c.success_rate.num = 100 * c.success_rate.den
    ELSE c.success_rate = 10000

\* C20 as stated: every emitted cell has at least one order, a success rate
\* within 0 and 100, which is 0 exactly when success_orders is 0 and 100
\* exactly when fail_orders is 0
C20_RateExtremesExact ==
    Responded =>
        \A i \in 1..Len(Emitted) :
            LET c == Emitted[i]
            IN  /\ c.total_orders >= 1
                /\ RateInRange(c)
                /\ RateIsZero(c) <=> c.success_orders = 0
                /\ RateIsHundred(c) <=> c.fail_orders = 0

\* C20 amended: every emitted cell has at least one order and a success rate
\* within 0 and 100, which is 0 whenever success_orders is 0 and 100
\* whenever fail_orders is 0; a rate of 0 (of 100) means success_orders
\* (fail_orders) is 0 for the unrounded rate of the region fill and, for a
\* Feature, in a cell of fewer than 20000 orders
C20_RateExtremes ==
    Responded =>
        \A i \in 1..Len(Emitted) :
            LET c == Emitted[i]
            IN  /\ c.total_orders >= 1
                /\ RateInRange(c)
                /\ c.success_orders = 0 => RateIsZero(c)
                /\ c.fail_orders = 0 => RateIsHundred(c)
                /\ (app = "script" \/ c.total_orders < CollapsingTotal) =>
                      /\ RateIsZero(c) => c.success_orders = 0
                      /\ RateIsHundred(c) => c.fail_orders = 0

\* C20 witness: a Feature of more than 20000 orders, one of them a success,
\* emitted with a success rate of 0
C20_Witness ==
    /\ Responded /\ app # "script"
    /\ \E i \in 1..Len(Emitted) :
          /\ Emitted[i].total_orders > CollapsingTotal
          /\ Emitted[i].success_orders = 1
          /\ Emitted[i].success_rate = 0

\* the distinct-location count an emitted cell carries
UniquePoints(c) ==
    IF app = "script" THEN c.supply_count ELSE c.unique_restaurants

\* the exact (lat, lng) pairs of the records counted in a cell
PointsOfCell(c) ==
    {<<filtered_df[r].lat, filtered_df[r].lng>> : r \in RowsOfCell(c)}

C22_RingClosed ==
    (Responded /\ app \in {"app1", "app2", "zoom1"}) =>
        \A i \in 1..Len(Emitted) :
            LET ring == Emitted[i].coordinates
            IN  ring[1] = ring[Len(ring)]

\* the ring an emitted cell carries
RingOf(c) == IF app = "script" THEN c.boundary ELSE c.coordinates

\* the components of the ring's vertices at one position of the pair
Components(ring, pos) == {ring[n][pos] : n \in 1..Len(ring)}

\* the value lies within the span of the values of S
Spans(S, v) == (\E a \in S : a <= v) /\ (\E b \in S : v <= b)

\* the ring has latitudes at position latAt and longitudes at the other
\* position: every record counted in the cell has its latitude within the
\* ring's components at latAt and its longitude within the others (in the
\* units of the cell's resolution)
RingHolds(c, latAt) ==
    LET f == geo_scale(c.h3_index[1])
    IN  \A r \in RowsOfCell(c.h3_index) :
            /\ Spans(Components(RingOf(c), latAt), filtered_df[r].lat * f)
            /\ Spans(Components(RingOf(c), 3 - latAt), filtered_df[r].lng * f)

\* C23: a Feature's ring has [lng, lat] vertices, a region-fill hexagon's
\* ring and the returned region boundary have [lat, lng] vertices, and the
\* Feature ring and the hexagon ring of one cell are each other's
\* element-wise swap, vertex by vertex
C23_AxisOrder ==
    Responded =>
        /\ \A i \in 1..Len(Emitted) :
              LET c    == Emitted[i]
                  cell == [new_cell(c.h3_index) EXCEPT !.total_orders = c.total_orders]
                  hex  == emit_hexagon(cell).boundary
                  feat == emit_feature(cell).coordinates
              IN  /\ RingHolds(c, IF app = "script" THEN 1 ELSE 2)
                  /\ Len(RingOf(c)) = Len(hex) /\ Len(RingOf(c)) = Len(feat)
                  /\ \A n \in 1..Len(RingOf(c)) :
                        IF app = "script"
                        THEN RingOf(c)[n] = <<feat[n][2], feat[n][1]>>
                        ELSE RingOf(c)[n] = <<hex[n][2], hex[n][1]>>
        /\ app = "script" =>
              /\ overpass.kind = "geometry" => response.boundary = overpass.coords
              /\ LookupFailed =>
                    /\ Spans(Components(response.boundary, 1), request.lat)
                    /\ Spans(Components(response.boundary, 2), request.lng)

\* C23 witness: a region fill on the substituted ring that returned a hexagon
\* holding a record
C23_Witness ==
    /\ Responded /\ app = "script" /\ LookupFailed
    /\ \E i \in 1..Len(Emitted) : RowsOfCell(Emitted[i].h3_index) # {}

\* the four time bins of the quartered mode
FourBins ==
    {"Night (12AM-6AM)", "Morning (6AM-12PM)",
     "Afternoon (12PM-6PM)", "Evening (6PM-12AM)"}

\* the program bins the hours in quarters of the day
Quartered == app \in {"app2", "script", "zoom1"}

\* C24: in quartered mode every loaded record has one of the four time bins,
\* and a selection of all four bins passes every record
C24_EveryHourBinned ==
    Quartered =>
        /\ \A r \in 1..Len(logistics_df) : logistics_df[r].Time_Bin \in FourBins
        /\ (app = "app2" /\ Responded /\ request.time_bins = FourBins) =>
              filtered_df = logistics_df

\* the bin whose label names the hour
NamedBin(hour) ==
    IF hour <= 5 THEN "Night (12AM-6AM)"
    ELSE IF hour <= 11 THEN "Morning (6AM-12PM)"
    ELSE IF hour <= 17 THEN "Afternoon (12PM-6PM)"
    ELSE "Evening (6PM-12AM)"

\* C25: in quartered mode every loaded record is in the bin whose label
\* names its hour: 0-5 Night, 6-11 Morning, 12-17 Afternoon, 18-23 Evening
C25_BinNamesHour ==
    Quartered =>
        \A r \in 1..Len(logistics_df) :
            logistics_df[r].Time_Bin = NamedBin(logistics_df[r].hour)

\* C26: in a filter response the statistics agree with the Features:
\* stats.total_orders is the sum of the Features' total_orders and
\* stats.success_orders the sum of their success_orders
C26_StatsAgree ==
    (Responded /\ app \in {"app1", "app2"}) =>
        /\ response.total_orders = SumTotal(Emitted, 1)
        /\ response.success_orders = SumSuccess(Emitted, 1)

\* the answer is an error response: a status and a message, nothing else
IsErrorResponse == response.code \in {400, 500} /\ DOMAIN response = {"code", "error"}

\* the answer is a complete result of the region fill
IsCompleteResult ==
    /\ response.code = 200
    /\ {"pincode", "boundary", "hexagons", "supply_points"} \subseteq DOMAIN response
    /\ "error" \notin DOMAIN response

\* one step of a region-fill request goes to the next stage only: pincode
\* lookup, boundary lookup, filtering and fill, response; a request that ends
\* at the pincode lookup has looked up no boundary and aggregated nothing
StagesInOrder ==
    /\ (pc = "idle" /\ pc' # pc) => pc' = "get_location_info"
    /\ (pc = "get_location_info" /\ pc' # pc) =>
          /\ pc' \in {"get_pincode_boundary", "done"}
          /\ boundary' = <<>> /\ overpass' = NoLookup
          /\ filtered_df' = <<>> /\ region' = NoRegion
          /\ pc' = "done" => (pincode' = "" /\ response'.code = 400)
          /\ pc' = "get_pincode_boundary" => (pincode' # "" /\ response' = NoResponse)
    /\ (pc = "get_pincode_boundary" /\ pc' # pc) =>
          /\ pc' = "filter_and_fill"
          /\ overpass' # NoLookup
          /\ filtered_df' = <<>> /\ region' = NoRegion /\ response' = NoResponse
    /\ (pc = "filter_and_fill" /\ pc' # pc) =>
          /\ pc' = "done"
          /\ region'.outcome # "none"
          /\ response'.code = 200
    /\ (pc = "done" /\ pc' # pc) => pc' = "idle"

\* C27: a region-fill request goes through pincode lookup, boundary lookup,
\* filtering, region fill and response in this order; without a pincode it
\* ends with an error response, no boundary looked up and nothing
\* aggregated; and every request received ends, with a complete result or
\* with an error response and never both
C27_RequestOrder ==
    /\ [][StagesInOrder]_vars
    /\ [](pc \in {"get_pincode_boundary", "filter_and_fill"} => pincode # "")
    /\ [](pc = "done" =>
            /\ IsCompleteResult \/ IsErrorResponse
            /\ ~(IsCompleteResult /\ IsErrorResponse)
            /\ IsCompleteResult => (pincode # "" /\ overpass # NoLookup /\ region.outcome # "none")
            /\ IsErrorResponse =>
                  (pincode = "" /\ overpass = NoLookup /\ region = NoRegion /\ filtered_df = <<>>))
    /\ (pc = "get_location_info") ~> (pc = "done")

\* C27 witness: a request ended by the pincode lookup, with an error response
C27_Witness ==
    /\ app = "script" /\ pc = "done"
    /\ IsErrorResponse
    /\ request # <<>> /\ overpass = NoLookup /\ region = NoRegion

\* the cells of a Feature list with their counts, as a set
CellCounts(features) ==
    {[h3_index       |-> features[i].h3_index,
      total_orders   |-> features[i].total_orders,
      success_orders |-> features[i].success_orders,
      fail_orders    |-> features[i].fail_orders,
      distinct       |-> features[i].unique_restaurants] : i \in 1..Len(features)}

\* both passes over the record set are done
BothDone == \A t \in Threads : workers[t].pc = "done"

\* C28: the aggregation of any permutation of a record set yields the same
\* set of cells, each with the same total, success, fail and distinct-point
\* counts
C28_OrderIndependent ==
    BothDone =>
        /\ CellCounts(workers[1].hexagons) = CellCounts(workers[2].hexagons)
        /\ Len(workers[1].hexagons) = Len(workers[2].hexagons)

\* C28 witness: a success and a failure of one cell taken in the two orders,
\* with the Features listed in a different order
C28_Witness ==
    /\ BothDone /\ app = "app1"
    /\ workers[1].hexagons # workers[2].hexagons
    /\ \E i, j, k, l \in 1..Len(workers[1].filtered_df) :
          /\ i < j /\ k < l
          /\ workers[1].filtered_df[i] = workers[2].filtered_df[l]
          /\ workers[1].filtered_df[j] = workers[2].filtered_df[k]
          /\ workers[1].filtered_df[i].h3_index_id = workers[1].filtered_df[j].h3_index_id
          /\ is_success(workers[1].filtered_df[i].status)
          /\ ~is_success(workers[1].filtered_df[j].status)

=============================================================================
